---- MODULE Spec2Model ----
(***************************************************************************)
(* gh-node-api: an Express proxy in front of GitHub's user endpoints.      *)
(*                                                                         *)
(*   routes/users.js   GET /users, GET /users/:username                    *)
(*   index.js          the fallback middleware for unmatched routes        *)
(*   utils/toCamelCaseParser.js   the recursive key rewriter               *)
(*                                                                         *)
(* Strings the program parses (query values, usernames, object keys) are   *)
(* sequences of one-character strings; strings it only passes along        *)
(* (messages) are TLA+ strings.                                            *)
(***************************************************************************)
EXTENDS Integers, Sequences, FiniteSets, TLC

(***************************************************************************)
(* Bounds of the model.                                                    *)
(***************************************************************************)
\* Number of requests that can be in flight together.
MaxRequests == 2
\* Nesting depth of the JSON values given to toCamelCaseParser.
MaxDepth == 2

(***************************************************************************)
(* JavaScript values of req.query / req.params: undefined, a string or a   *)
(* number (a number only appears once .default(30) has replaced a value).  *)
(***************************************************************************)
Undefined == [kind |-> "undefined", val |-> <<>>]
Str(s) == [kind |-> "string", val |-> s]
Num(n) == [kind |-> "number", val |-> n]

Digits == <<"0", "1", "2", "3", "4", "5", "6", "7", "8", "9">>
IsDigit(c) == \E d \in 1..10 : Digits[d] = c
DigitVal(c) == (CHOOSE d \in 1..10 : Digits[d] = c) - 1

LowerLetters == <<"a", "b", "c", "d", "e", "f", "g", "h", "i", "j", "k", "l", "m",
                  "n", "o", "p", "q", "r", "s", "t", "u", "v", "w", "x", "y", "z">>
UpperLetters == <<"A", "B", "C", "D", "E", "F", "G", "H", "I", "J", "K", "L", "M",
                  "N", "O", "P", "Q", "R", "S", "T", "U", "V", "W", "X", "Y", "Z">>
IsLower(c) == \E l \in 1..26 : LowerLetters[l] = c
IsUpper(c) == \E l \in 1..26 : UpperLetters[l] = c
IsLetter(c) == IsLower(c) \/ IsUpper(c)
\* String.prototype.toUpperCase on one character
ToUpperCase(c) ==
  IF IsLower(c) THEN UpperLetters[CHOOSE l \in 1..26 : LowerLetters[l] = c] ELSE c

\* The decimal spelling of a natural number, as Number.prototype.toString gives it.
RECURSIVE ToDec(_)
ToDec(n) == IF n < 10 THEN <<Digits[n + 1]>>
            ELSE Append(ToDec(n \div 10), Digits[(n % 10) + 1])

\* validator.js toString(): the string a validator sees for a value.
toStr(v) == IF v.kind = "number" THEN ToDec(v.val) ELSE v.val

\* parseInt(digits, 10) on a sequence of digits
RECURSIVE ParseDigits(_)
ParseDigits(s) == IF s = <<>> THEN 0
                  ELSE 10 * ParseDigits(SubSeq(s, 1, Len(s) - 1)) + DigitVal(s[Len(s)])

(***************************************************************************)
(* validator.js isInt: an optional sign, then either "0" or a digit 1-9    *)
(* followed by any digits (no leading zeroes); then the min and max        *)
(* options compared against parseInt(str, 10).                             *)
(***************************************************************************)
HasSign(s) == Len(s) >= 1 /\ s[1] \in {"-", "+"}
Unsigned(s) == IF HasSign(s) THEN Tail(s) ELSE s
IntRegex(s) ==
  LET u == Unsigned(s) IN
    /\ Len(u) >= 1
    /\ \A i \in 1..Len(u) : IsDigit(u[i])
    /\ (u[1] = "0" => Len(u) = 1)
ParseInt(s) ==
  IF HasSign(s) /\ s[1] = "-" THEN 0 - ParseDigits(Unsigned(s)) ELSE ParseDigits(Unsigned(s))
NoMax == 0 - 1
isInt(str, min, max) ==
  /\ IntRegex(str)
  /\ ParseInt(str) >= min
  /\ (max # NoMax => ParseInt(str) <= max)

\* validator.js isLength({min})
isLength(str, min) == Len(str) >= min
\* validator.js isIn(values)
isIn(str, values) == str \in values
\* express-validator isString(): typeof value === 'string'
isString(v) == v.kind = "string"
\* express-validator exists(): value !== undefined
exists(v) == v.kind # "undefined"

(***************************************************************************)
(* github-username-regex (case-insensitive): one alphanumeric, then up to  *)
(* 38 more characters, each an alphanumeric or a hyphen that is directly   *)
(* followed by an alphanumeric.                                            *)
(***************************************************************************)
MaxUsernameTail == 38
IsAlnum(c) == IsLetter(c) \/ IsDigit(c)
githubUsernameRegex(s) ==
  /\ Len(s) >= 1
  /\ Len(s) <= 1 + MaxUsernameTail
  /\ IsAlnum(s[1])
  /\ \A i \in 2..Len(s) :
       \/ IsAlnum(s[i])
       \/ s[i] = "-" /\ i < Len(s) /\ IsAlnum(s[i + 1])

(***************************************************************************)
(* express-validator (v6) chains.  A chain reads req[location][field] and  *)
(* runs its items in order against it; validators that fail append an      *)
(* error {value, msg, param, location} and the chain goes on (no bail).    *)
(***************************************************************************)
Failure(v, msg, param, location) ==
  [value |-> v, msg |-> msg, param |-> param, location |-> location]

\* .optional(): with the value undefined no item of the chain runs, wherever
\* in the chain .optional() was written (sanitizers included).
optional(v) == exists(v)

\* .default(d): replaces undefined, null, NaN and '' by d.
default(v, d) == IF v.kind = "undefined" \/ (v.kind = "string" /\ v.val = <<>>) THEN d ELSE v

DefaultPerPage == 30
MinPerPage == 1
MaxPerPage == 100
MinSince == 0
MinSearchLength == 3
MinPage == 1

followers == <<"f", "o", "l", "l", "o", "w", "e", "r", "s">>
repositories == <<"r", "e", "p", "o", "s", "i", "t", "o", "r", "i", "e", "s">>
joined == <<"j", "o", "i", "n", "e", "d">>
asc == <<"a", "s", "c">>
desc == <<"d", "e", "s", "c">>
SortValues == {followers, repositories, joined}
OrderValues == {asc, desc}

\* The result of a chain: the request's query after its sanitizers, and the
\* errors it recorded.
Ran(q, errs) == [query |-> q, errors |-> errs]

\* query('perPage').optional().default(30).isInt({min: 1, max: 100}).withMessage(..)
perPageChain(q) ==
  IF ~optional(q.perPage) THEN Ran(q, <<>>)
  ELSE LET v == default(q.perPage, Num(DefaultPerPage)) IN
       Ran([q EXCEPT !.perPage = v],
           IF isInt(toStr(v), MinPerPage, MaxPerPage) THEN <<>>
           ELSE <<Failure(v, "perPage must be an integer between 1 and 100",
                          "perPage", "query")>>)

\* .if(query('search').not().exists())
sinceGuard(q) == ~exists(q.search)
\* Mutant: the rules of sort, order and page are not guarded.
searchGuardAlways(q) == TRUE
\* .if(query('search').exists())
searchGuard(q) == exists(q.search)

\* query('since').optional().if(..).isInt({min: 0}).withMessage(..)
sinceChain(q) ==
  IF ~optional(q.since) \/ ~sinceGuard(q) THEN Ran(q, <<>>)
  ELSE Ran(q, IF isInt(toStr(q.since), MinSince, NoMax) THEN <<>>
              ELSE <<Failure(q.since, "since must be an integer greater than 0",
                             "since", "query")>>)

\* query('search').optional().isString().isLength({min: 3}).withMessage(..)
\* withMessage names the last validator only: isString keeps the default message.
searchChain(q) ==
  IF ~optional(q.search) THEN Ran(q, <<>>)
  ELSE Ran(q,
       (IF isString(q.search) THEN <<>>
        ELSE <<Failure(q.search, "Invalid value", "search", "query")>>)
       \o
       (IF isLength(toStr(q.search), MinSearchLength) THEN <<>>
        ELSE <<Failure(q.search, "search must be a string with at least 3 characters",
                       "search", "query")>>))

\* query('sort').if(..).optional().isIn([..]).withMessage(..)
sortChain(q) ==
  IF ~optional(q.sort) \/ ~searchGuard(q) THEN Ran(q, <<>>)
  ELSE Ran(q, IF isIn(toStr(q.sort), SortValues) THEN <<>>
              ELSE <<Failure(q.sort,
                     "sort must be one of the following values: followers, repositories, joined",
                     "sort", "query")>>)

\* query('order').if(..).optional().isIn(['asc', 'desc']).withMessage(..)
orderChain(q) ==
  IF ~optional(q.order) \/ ~searchGuard(q) THEN Ran(q, <<>>)
  ELSE Ran(q, IF isIn(toStr(q.order), OrderValues) THEN <<>>
              ELSE <<Failure(q.order, "order must be one of the following values: asc, desc",
                             "order", "query")>>)

\* query('page').if(..).optional().isInt({min: 1}).withMessage(..)
pageChain(q) ==
  IF ~optional(q.page) \/ ~searchGuard(q) THEN Ran(q, <<>>)
  ELSE Ran(q, IF isInt(toStr(q.page), MinPage, NoMax) THEN <<>>
              ELSE <<Failure(q.page, "page must be an integer greater than 0",
                             "page", "query")>>)

\* The chains of GET /users run as middlewares, one after the other, each on
\* the request as the previous one left it; validationResult(req) lists the
\* errors in that order.
\* Mutant: validation stops at the first chain that records an error.
usersValidationFirstFailure(q) ==
  LET r1 == perPageChain(q)
      r2 == sinceChain(r1.query)
      r3 == searchChain(r2.query)
      r4 == sortChain(r3.query)
      r5 == orderChain(r4.query)
      r6 == pageChain(r5.query)
  IN IF r1.errors # <<>> THEN r1
     ELSE IF r2.errors # <<>> THEN r2
     ELSE IF r3.errors # <<>> THEN r3
     ELSE IF r4.errors # <<>> THEN r4
     ELSE IF r5.errors # <<>> THEN r5
     ELSE r6
usersValidation(q) ==
  LET r1 == perPageChain(q)
      r2 == sinceChain(r1.query)
      r3 == searchChain(r2.query)
      r4 == sortChain(r3.query)
      r5 == orderChain(r4.query)
      r6 == pageChain(r5.query)
  IN Ran(r6.query,
         r1.errors \o r2.errors \o r3.errors \o r4.errors \o r5.errors \o r6.errors)

\* param('username').isString().matches(githubUsernameRegex).withMessage(..)
usernameChain(username) ==
  (IF isString(username) THEN <<>>
   ELSE <<Failure(username, "Invalid value", "username", "params")>>)
  \o
  (IF githubUsernameRegex(toStr(username)) THEN <<>>
   ELSE <<Failure(username, "Username must be a valid github username",
                  "username", "params")>>)

(***************************************************************************)
(* JSON-like values: a scalar (null, boolean, number, string), an array    *)
(* (a sequence of values) or an object (its entries in key order, no key   *)
(* twice).                                                                 *)
(***************************************************************************)
JNull == [kind |-> "null", val |-> <<>>]
JBool(b) == [kind |-> "boolean", val |-> b]
JNum(n) == [kind |-> "number", val |-> n]
JStr(s) == [kind |-> "string", val |-> s]
JArr(elems) == [kind |-> "array", val |-> elems]
JObj(entries) == [kind |-> "object", val |-> entries]
Entry(k, v) == [key |-> k, value |-> v]

\* typeof param !== 'object' || !param
IsScalar(param) == param.kind \notin {"array", "object"}

\* String.prototype.replace(ch, ''): drops the first occurrence of ch.
RECURSIVE ReplaceFirst(_, _)
ReplaceFirst(s, ch) ==
  IF s = <<>> THEN <<>>
  ELSE IF Head(s) = ch THEN Tail(s)
  ELSE <<Head(s)>> \o ReplaceFirst(Tail(s), ch)

\* $1 => $1.toUpperCase().replace('-', '').replace('_', '')
Replacer(match) ==
  ReplaceFirst(ReplaceFirst([i \in 1..Len(match) |-> ToUpperCase(match[i])], "-"), "_")

\* key.replace(/([-_][a-z])/gi, ..): the matches are taken left to right and
\* do not overlap.
RECURSIVE ReplaceFrom(_, _)
ReplaceFrom(key, i) ==
  IF i > Len(key) THEN <<>>
  ELSE IF key[i] \in {"-", "_"} /\ i < Len(key) /\ IsLetter(key[i + 1])
       THEN Replacer(<<key[i], key[i + 1]>>) \o ReplaceFrom(key, i + 2)
       ELSE <<key[i]>> \o ReplaceFrom(key, i + 1)
\* Mutant: only the underscore is taken for a delimiter.
RECURSIVE ReplaceFromUnderscore(_, _)
ReplaceFromUnderscore(key, i) ==
  IF i > Len(key) THEN <<>>
  ELSE IF key[i] = "_" /\ i < Len(key) /\ IsLetter(key[i + 1])
       THEN Replacer(<<key[i], key[i + 1]>>) \o ReplaceFromUnderscore(key, i + 2)
       ELSE <<key[i]>> \o ReplaceFromUnderscore(key, i + 1)
camelCaseKeyUnderscore(key) == ReplaceFromUnderscore(key, 1)
camelCaseKey(key) == ReplaceFrom(key, 1)

\* result[key] = value on an object: an existing key keeps its place and
\* takes the new value, a new key goes last.
HasKey(entries, k) == \E i \in 1..Len(entries) : entries[i].key = k
ObjectSet(entries, k, v) ==
  IF HasKey(entries, k)
  THEN [i \in 1..Len(entries) |->
          IF entries[i].key = k THEN Entry(k, v) ELSE entries[i]]
  ELSE Append(entries, Entry(k, v))

RECURSIVE toCamelCaseParser(_)
RECURSIVE reduceKeys(_, _)
\* Mutant: keys whose value is falsy are left out of the result.
reduceKeysTruthy(entries, result) ==
  IF entries = <<>> THEN result
  ELSE reduceKeys(Tail(entries),
                  IF Head(entries).value.kind = "null" THEN result
                  ELSE ObjectSet(result, camelCaseKey(Head(entries).key),
                                 toCamelCaseParser(Head(entries).value)))
\* Object.keys(param).reduce((result, key) => {..}, {}) from the entries left
reduceKeys(entries, result) ==
  IF entries = <<>> THEN result
  ELSE reduceKeys(Tail(entries),
                  ObjectSet(result, camelCaseKey(Head(entries).key),
                            toCamelCaseParser(Head(entries).value)))

toCamelCaseParser(param) ==
  IF IsScalar(param) THEN param
  ELSE IF param.kind = "array"
       THEN JArr([i \in 1..Len(param.val) |-> toCamelCaseParser(param.val[i])])
       ELSE JObj(reduceKeys(param.val, <<>>))

(***************************************************************************)
(* The server.                                                             *)
(***************************************************************************)
VARIABLES
  reqs,      \* the requests by id: position of its handler, req and res
  calls,     \* the octokit.request calls made so far, oldest first
  alive,     \* whether the node process is running
  param,     \* a value handed to toCamelCaseParser on its own
  returned   \* what that call returned

vars == <<reqs, calls, alive, param, returned>>

USERS == "GET /users"
USER == "GET /users/:username"
UNMATCHED == "unmatched"

Query(perPage, since, search, sort, order, page) ==
  [perPage |-> perPage, since |-> since, search |-> search,
   sort |-> sort, order |-> order, page |-> page]
NoQuery == Query(Undefined, Undefined, Undefined, Undefined, Undefined, Undefined)

NoResponse == [status |-> 0, type |-> "none", body |-> <<>>]
NoUpstream == [kind |-> "none", status |-> 0, data |-> JNull]

\* A request: sent is the query as the client sent it, query is req.query,
\* which the sanitizers of the chains write to.
Idle ==
  [pc |-> "idle", route |-> "none", sent |-> NoQuery, query |-> NoQuery,
   username |-> Undefined, accept |-> {}, errors |-> <<>>,
   upstream |-> NoUpstream, res |-> NoResponse]

Request(route, query, username, accept) ==
  [Idle EXCEPT !.pc = "received", !.route = route, !.sent = query, !.query = query,
               !.username = username, !.accept = accept]

\* req.accepts('html'): without an Accept header every type is acceptable.
accepts(accept, type) ==
  \/ accept = {}
  \/ "*/*" \in accept
  \/ type = "html" /\ ({"text/html", "text/*"} \cap accept) # {}

\* JavaScript truthiness of a query value: if (search)
Truthy(v) ==
  CASE v.kind = "undefined" -> FALSE
    [] v.kind = "string" -> v.val # <<>>
    [] v.kind = "number" -> v.val # 0

\* `${search} in:login name email type:user`
QuerySuffix == <<" ", "i", "n", ":", "l", "o", "g", "i", "n", " ", "n", "a", "m", "e", " ", "e", "m", "a", "i", "l", " ", "t", "y", "p", "e", ":", "u", "s", "e", "r">>
composeQ(search) == toStr(search) \o QuerySuffix

\* octokit.request('GET /search/users', {sort, page, order, q, per_page: perPage})
searchUsersCall(i, q) ==
  [req |-> i, route |-> "GET /search/users",
   params |-> [sort |-> q.sort, page |-> q.page, order |-> q.order,
               q |-> composeQ(q.search), per_page |-> q.perPage]]
\* octokit.request('GET /users', {since, per_page: perPage})
listUsersCall(i, q) ==
  [req |-> i, route |-> "GET /users",
   params |-> [since |-> q.since, per_page |-> q.perPage]]
\* octokit.request('GET /users/{username}', {username: req.params.username})
getUserCall(i, username) ==
  [req |-> i, route |-> "GET /users/{username}", params |-> [username |-> username]]

\* Mutant: the branch is taken on sort instead of search.
usersCallOnSort(i, q) == IF Truthy(q.sort) THEN searchUsersCall(i, q) ELSE listUsersCall(i, q)
\* if (search) {..} else {..}
usersCall(i, q) == IF Truthy(q.search) THEN searchUsersCall(i, q) ELSE listUsersCall(i, q)

\* Mutant: the handler never sees an error.
hasErrorsNever(errors) == FALSE
\* !errors.isEmpty()
hasErrors(errors) == errors # <<>>
\* res.status(400).json({ errors: errors.array() })
validationResponse(errors) ==
  [status |-> 400, type |-> "json", body |-> [errors |-> errors]]
\* Mutant: the upstream body is sent as it came.
sendDataRaw(data) == [status |-> 200, type |-> "send", body |-> data]
\* res.send(toCamelCaseParser(response.data)); the status stays at its default
sendData(data) ==
  [status |-> 200, type |-> "send", body |-> toCamelCaseParser(data)]

\* catch (error) {..} of GET /users/:username
UserNotFound == [error |-> "User not found"]
SomethingWentWrong == [error |-> "Something went wrong"]
\* Mutant: the catch relays the upstream status.
catchResponseRelay(error) ==
  [status |-> IF error.status = 0 THEN 500 ELSE error.status, type |-> "send",
   body |-> IF error.status = 404 THEN UserNotFound ELSE SomethingWentWrong]
catchResponse(error) ==
  IF error.status = 404
  THEN [status |-> 404, type |-> "send", body |-> UserNotFound]
  ELSE [status |-> 500, type |-> "send", body |-> SomethingWentWrong]

\* The fallback middleware: res.status(404), then res.redirect('/docs'),
\* which sets the status to 302 and the Location header, or res.send(..).
ResourceNotFound == [error |-> "Resource isn't found"]
\* Mutant: the fallback as it was before the redirect was added.
notFoundResponseSendOnly(accept) ==
  [status |-> 404, type |-> "send", body |-> [error |-> "Resource isn't found"]]
notFoundResponse(accept) ==
  IF accepts(accept, "html")
  THEN [status |-> 302, type |-> "redirect", body |-> [location |-> "/docs"]]
  ELSE [status |-> 404, type |-> "send", body |-> ResourceNotFound]

(***************************************************************************)
(* What the upstream API may answer: a body, or a RequestError carrying    *)
(* the HTTP status (0: an error without status, such as a network error).  *)
(***************************************************************************)
login == <<"l", "o", "g", "i", "n">>
node_id == <<"n", "o", "d", "e", "_", "i", "d">>
site_admin == <<"s", "i", "t", "e", "_", "a", "d", "m", "i", "n">>
avatar_url == <<"a", "v", "a", "t", "a", "r", "_", "u", "r", "l">>
total_count == <<"t", "o", "t", "a", "l", "_", "c", "o", "u", "n", "t">>
items == <<"i", "t", "e", "m", "s">>
UserData ==
  JObj(<<Entry(login, JStr("octocat")), Entry(node_id, JStr("MDQ6")),
         Entry(site_admin, JBool(FALSE)), Entry(avatar_url, JNull)>>)
ListData == JArr(<<UserData, JObj(<<Entry(login, JStr("mojombo")), Entry(node_id, JStr("MDQ7"))>>)>>)
SearchData == JObj(<<Entry(total_count, JNum(1)), Entry(items, JArr(<<UserData>>))>>)
UpstreamData(route) ==
  CASE route = "GET /users" -> {ListData, JArr(<<>>)}
    [] route = "GET /search/users" -> {SearchData}
    [] route = "GET /users/{username}" -> {UserData}
UpstreamErrors == {[status |-> 404], [status |-> 403], [status |-> 500], [status |-> 0]}

(***************************************************************************)
(* The requests the model sends.                                           *)
(***************************************************************************)
PerPageInputs == {Undefined, Str(<<>>), Str(<<"5">>), Str(<<"1", "0", "0">>), Str(<<"1", "0", "1">>), Str(<<"0">>), Str(<<"x">>)}
SinceInputs == {Undefined, Str(<<"0">>), Str(<<"1", "2">>), Str(<<"-", "1">>), Str(<<"x">>)}
SearchInputs == {Undefined, Str(<<>>), Str(<<"a", "b">>), Str(<<"t", "o", "m">>)}
SortInputs == {Undefined, Str(followers), Str(<<"s", "t", "a", "r", "s">>), Str(<<>>)}
OrderInputs == {Undefined, Str(desc), Str(<<"u", "p">>)}
PageInputs == {Undefined, Str(<<"1">>), Str(<<"0">>), Str(<<"+", "2">>), Str(<<"x">>)}
LongName(n) == [i \in 1..n |-> "a"]
UsernameInputs ==
  {Str(<<"o", "c", "t", "o", "-", "c", "a", "t">>), Str(<<"-", "o", "c", "t", "o", "c", "a", "t">>), Str(<<"o", "c", "t", "o", "c", "a", "t", "-", "-", "2">>), Str(<<"o", "c", "t", "o", "c", "a", "t", "-">>),
   Str(<<"a">>), Str(<<"O", "c", "t", "o", "_", "c", "a", "t">>), Str(LongName(1 + MaxUsernameTail)),
   Str(LongName(2 + MaxUsernameTail))}
AcceptInputs == {{}, {"text/html"}, {"application/json"}, {"*/*"}}

UsersRequests ==
  {Request(USERS, Query(pp, si, se, so, ord, pg), Undefined, {"application/json"}) :
     pp \in PerPageInputs, si \in SinceInputs, se \in SearchInputs,
     so \in SortInputs, ord \in OrderInputs, pg \in PageInputs}
UserRequests ==
  {Request(USER, NoQuery, u, {"application/json"}) : u \in UsernameInputs}
UnmatchedRequests ==
  {Request(UNMATCHED, NoQuery, Undefined, a) : a \in AcceptInputs}

\* Every request of the model, sent one at a time.
AllRequests == UsersRequests \cup UserRequests \cup UnmatchedRequests

\* The requests sent concurrently.
SampleRequests ==
  { Request(USERS, NoQuery, Undefined, {"application/json"}),
    Request(USERS, [NoQuery EXCEPT !.search = Str(<<"t", "o", "m">>), !.sort = Str(followers)],
            Undefined, {"application/json"}),
    Request(USERS, [NoQuery EXCEPT !.perPage = Str(<<"1", "0", "1">>), !.search = Str(<<"a", "b">>)],
            Undefined, {"application/json"}),
    Request(USER, NoQuery, Str(<<"o", "c", "t", "o", "-", "c", "a", "t">>), {"application/json"}),
    Request(USER, NoQuery, Str(<<"-", "o", "c", "t", "o", "c", "a", "t">>), {"application/json"}),
    Request(UNMATCHED, NoQuery, Undefined, {"text/html"}),
    Request(UNMATCHED, NoQuery, Undefined, {"application/json"}) }

(***************************************************************************)
(* The steps of a request.                                                 *)
(***************************************************************************)
NotCalled == [kind |-> "pending", val |-> <<>>]

\* A request arrives and is routed.
Receive(i, inputs) ==
  /\ alive
  /\ reqs[i].pc = "idle"
  /\ \E r \in inputs : reqs' = [reqs EXCEPT ![i] = r]
  /\ UNCHANGED <<calls, alive, param, returned>>

\* The validation middlewares of the route, run before its handler.
Validate(i) ==
  /\ alive
  /\ reqs[i].pc = "received"
  /\ reqs[i].route \in {USERS, USER}
  /\ reqs' = [reqs EXCEPT ![i] =
       IF reqs[i].route = USERS
       THEN LET r == usersValidation(reqs[i].query) IN
            [reqs[i] EXCEPT !.pc = "validated", !.query = r.query, !.errors = r.errors]
       ELSE [reqs[i] EXCEPT !.pc = "validated",
                            !.errors = usernameChain(reqs[i].username)]]
  /\ UNCHANGED <<calls, alive, param, returned>>

\* The handler up to its response or to its await: the call it makes, if any.
handlerCall(i, req) ==
  IF req.route = USERS THEN usersCall(i, req.query) ELSE getUserCall(i, req.username)

\* Mutant: the upstream call is issued a second time (a retry).
HandleRetrying(i) ==
  /\ alive
  /\ reqs[i].pc = "validated"
  /\ IF hasErrors(reqs[i].errors)
     THEN /\ reqs' = [reqs EXCEPT ![i].pc = "responded",
                                  ![i].res = validationResponse(reqs[i].errors)]
          /\ UNCHANGED calls
     ELSE /\ reqs' = [reqs EXCEPT ![i].pc = "awaiting",
                                  ![i].upstream = [NoUpstream EXCEPT !.kind = "pending"]]
          /\ calls' = Append(Append(calls, handlerCall(i, reqs[i])), handlerCall(i, reqs[i]))
  /\ UNCHANGED <<alive, param, returned>>
\* async (req, res) => {..} of both routes, until it returns or awaits
Handle(i) ==
  /\ alive
  /\ reqs[i].pc = "validated"
  /\ IF hasErrors(reqs[i].errors)
     THEN /\ reqs' = [reqs EXCEPT ![i].pc = "responded",
                                  ![i].res = validationResponse(reqs[i].errors)]
          /\ UNCHANGED calls
     ELSE /\ reqs' = [reqs EXCEPT ![i].pc = "awaiting",
                                  ![i].upstream = [NoUpstream EXCEPT !.kind = "pending"]]
          /\ calls' = Append(calls, handlerCall(i, reqs[i]))
  /\ UNCHANGED <<alive, param, returned>>

\* The call this request is waiting for.
PendingCall(i) == calls[CHOOSE n \in 1..Len(calls) : calls[n].req = i]

\* The await resumes with a response: res.send(toCamelCaseParser(response.data))
UpstreamReturns(i) ==
  /\ alive
  /\ reqs[i].pc = "awaiting"
  /\ \E data \in UpstreamData(PendingCall(i).route) :
       reqs' = [reqs EXCEPT ![i].pc = "responded",
                            ![i].upstream = [kind |-> "ok", status |-> 200, data |-> data],
                            ![i].res = sendData(data)]
  /\ UNCHANGED <<calls, alive, param, returned>>

\* The await of GET /users/:username throws inside its try: the catch answers.
UserUpstreamFails(i) ==
  /\ alive
  /\ reqs[i].pc = "awaiting"
  /\ reqs[i].route = USER
  /\ \E error \in UpstreamErrors :
       reqs' = [reqs EXCEPT ![i].pc = "responded",
                            ![i].upstream = [kind |-> "error", status |-> error.status,
                                             data |-> JNull],
                            ![i].res = catchResponse(error)]
  /\ UNCHANGED <<calls, alive, param, returned>>

\* What an unhandled promise rejection does to the process: node >= 15 (the
\* image is node:lts) ends it, an older node or --unhandled-rejections=warn
\* only prints a warning.
afterUnhandledRejection == {FALSE, TRUE}

\* The await of GET /users throws and the handler has no try: its promise is
\* rejected, Express 4 does not look at it, and no response is ever sent.
UsersUpstreamFails(i) ==
  /\ alive
  /\ reqs[i].pc = "awaiting"
  /\ reqs[i].route = USERS
  /\ \E error \in UpstreamErrors :
       reqs' = [reqs EXCEPT ![i].pc = "rejected",
                            ![i].upstream = [kind |-> "error", status |-> error.status,
                                             data |-> JNull]]
  /\ alive' \in afterUnhandledRejection
  /\ UNCHANGED <<calls, param, returned>>

\* app.use((req, res, next) => {..}): no route matched
NotFound(i) ==
  /\ alive
  /\ reqs[i].pc = "received"
  /\ reqs[i].route = UNMATCHED
  /\ reqs' = [reqs EXCEPT ![i].pc = "responded",
                          ![i].res = notFoundResponse(reqs[i].accept)]
  /\ UNCHANGED <<calls, alive, param, returned>>

\* MaxRequests requests, handled concurrently.
Init ==
  /\ reqs = [i \in 1..MaxRequests |-> Idle]
  /\ calls = <<>>
  /\ alive = TRUE
  /\ param = JNull
  /\ returned = NotCalled
Next ==
  \/ \E i \in DOMAIN reqs : Receive(i, SampleRequests)
  \/ \E i \in DOMAIN reqs : Validate(i)
  \/ \E i \in DOMAIN reqs : Handle(i)
  \/ \E i \in DOMAIN reqs : UpstreamReturns(i)
  \/ \E i \in DOMAIN reqs : UserUpstreamFails(i)
  \/ \E i \in DOMAIN reqs : UsersUpstreamFails(i)
  \/ \E i \in DOMAIN reqs : NotFound(i)
Spec == Init /\ [][Next]_vars

\* One request, drawn from all the requests of the model.
InitOne ==
  /\ reqs = [i \in {1} |-> Idle]
  /\ calls = <<>>
  /\ alive = TRUE
  /\ param = JNull
  /\ returned = NotCalled
NextOne ==
  \/ \E i \in DOMAIN reqs : Receive(i, AllRequests)
  \/ \E i \in DOMAIN reqs : Validate(i)
  \/ \E i \in DOMAIN reqs : Handle(i)
  \/ \E i \in DOMAIN reqs : UpstreamReturns(i)
  \/ \E i \in DOMAIN reqs : UserUpstreamFails(i)
  \/ \E i \in DOMAIN reqs : UsersUpstreamFails(i)
  \/ \E i \in DOMAIN reqs : NotFound(i)
SpecOne == InitOne /\ [][NextOne]_vars

(***************************************************************************)
(* toCamelCaseParser on its own: called once on a JSON-like value nested   *)
(* up to MaxDepth deep.                                                    *)
(***************************************************************************)
KeyInputs == {<<"a", "_", "b">>, <<"a", "-", "B">>, <<"a", "B">>, <<"a", "_", "_", "b">>, <<"c", "_", "1", "_">>}
ScalarInputs == {JNull, JStr("x")}
\* The values one level deeper than the values vs: each wrapped in an array
\* or an object, alone or beside a scalar.
Wrap(vs) ==
  {JArr(<<>>), JObj(<<>>)}
  \cup {JArr(<<v>>) : v \in vs}
  \cup {JArr(<<v, JNum(1)>>) : v \in vs}
  \cup {JObj(<<Entry(k, v)>>) : k \in KeyInputs, v \in vs}
  \cup {JObj(<<Entry(e[1], v), Entry(e[2], JNull)>>) :
          e \in {p \in KeyInputs \X KeyInputs : p[1] # p[2]}, v \in vs}
RECURSIVE JsonValues(_)
JsonValues(depth) ==
  IF depth = 0 THEN ScalarInputs
  ELSE JsonValues(depth - 1) \cup Wrap(JsonValues(depth - 1))

InitParser ==
  /\ reqs = [i \in {1} |-> Idle]
  /\ calls = <<>>
  /\ alive = TRUE
  /\ param \in JsonValues(MaxDepth)
  /\ returned = NotCalled
\* toCamelCaseParser(param)
CallParser ==
  /\ returned = NotCalled
  /\ returned' = toCamelCaseParser(param)
  /\ UNCHANGED <<reqs, calls, alive, param>>
NextParser == CallParser
SpecParser == InitParser /\ [][NextParser]_vars

(***************************************************************************)
(* Properties.                                                             *)
(***************************************************************************)
Ids == DOMAIN reqs
CallsOf(i) == {n \in 1..Len(calls) : calls[n].req = i}
Validated(r) == r.pc \in {"validated", "awaiting", "responded", "rejected"}
Handled(r) == r.pc \in {"awaiting", "responded", "rejected"}

\* C1: on both routes, a request with at least one failed validation rule
\* is answered 400 with body {errors: [..]} listing the failures, and no
\* upstream call is ever made for it.
C1_ValidationFailureShortCircuits ==
  \A i \in Ids :
    (Validated(reqs[i]) /\ reqs[i].errors # <<>>) =>
      /\ CallsOf(i) = {}
      /\ reqs[i].pc \in {"validated", "responded"}
      /\ reqs[i].upstream = NoUpstream
      /\ reqs[i].pc = "responded" =>
           /\ reqs[i].res.status = 400
           /\ reqs[i].res.type = "json"
           /\ reqs[i].res.body = [errors |-> reqs[i].errors]
C1_Witness ==
  \E i \in Ids :
    /\ reqs[i].route = USERS
    /\ reqs[i].pc = "responded"
    /\ Len(reqs[i].errors) >= 2
    /\ reqs[i].res.status = 400
    /\ calls = <<>>

\* C2: GET /users/:username with a valid username: an upstream failure with
\* status 404 is answered 404 {error: "User not found"}, any other failure
\* (another status, or none) 500 {error: "Something went wrong"}; nothing of
\* the upstream error is in the response.
C2_UserUpstreamFailure ==
  \A i \in Ids :
    (reqs[i].route = USER /\ reqs[i].upstream.kind = "error") =>
      /\ reqs[i].errors = <<>>
      /\ reqs[i].pc = "responded"
      /\ reqs[i].res =
           IF reqs[i].upstream.status = 404
           THEN [status |-> 404, type |-> "send", body |-> [error |-> "User not found"]]
           ELSE [status |-> 500, type |-> "send", body |-> [error |-> "Something went wrong"]]
C2_Witness ==
  \E i, j \in Ids :
    /\ reqs[i].route = USER /\ reqs[i].upstream.kind = "error"
    /\ reqs[i].upstream.status = 404 /\ reqs[i].res.status = 404
    /\ reqs[j].route = USER /\ reqs[j].upstream.kind = "error"
    /\ reqs[j].upstream.status = 403 /\ reqs[j].res.status = 500

\* C3: GET /users (list and search): a validated request whose upstream call
\* fails is answered 500 with a generic message, and the call is made once.
C3_UsersUpstreamFailureIs500 ==
  \A i \in Ids :
    (reqs[i].route = USERS /\ reqs[i].upstream.kind = "error") =>
      /\ reqs[i].pc = "responded"
      /\ reqs[i].res.status = 500
      /\ reqs[i].res.body = [error |-> "Something went wrong"]
      /\ Cardinality(CallsOf(i)) = 1

\* A request that has arrived and has neither been answered nor abandoned.
InFlight(r) == r.pc \in {"received", "validated", "awaiting"}
NextStep(i) ==
  \/ Validate(i)
  \/ Handle(i)
  \/ UpstreamReturns(i)
  \/ UserUpstreamFails(i)
  \/ UsersUpstreamFails(i)
  \/ NotFound(i)
\* C4: no error is fatal: whatever failed in another request, a request
\* still in flight can take its next step (and so be answered).
C4_NoErrorIsFatal ==
  \A i \in Ids : InFlight(reqs[i]) => ENABLED NextStep(i)

\* The spellings of the integers from min up that a query string can carry.
Numerals(min) ==
  UNION {{ToDec(n), <<"+">> \o ToDec(n)} : n \in min..120} \cup
  (IF min <= 0 THEN {<<"-", "0">>} ELSE {})
Denotes(v, n) == v = Num(n) \/ (v.kind = "string" /\ v.val \in {ToDec(n), <<"+">> \o ToDec(n)})
FailuresOf(r, name) == {n \in 1..Len(r.errors) : r.errors[n].param = name}
Rejected(r, name) ==
  /\ FailuresOf(r, name) # {}
  /\ r.pc \in {"validated", "responded"}
  /\ r.pc = "responded" => r.res.status = 400

\* C5: GET /users: with perPage absent the request is accepted and the
\* upstream call (list or search) is issued with per_page = 30; a perPage that
\* is present and not an integer in [1,100] is rejected with an error naming
\* perPage.
C5_PerPageDefaultsTo30 ==
  \A i \in Ids :
    (reqs[i].route = USERS /\ Validated(reqs[i])) =>
      /\ ~exists(reqs[i].sent.perPage) =>
           /\ FailuresOf(reqs[i], "perPage") = {}
           /\ \A n \in CallsOf(i) : Denotes(calls[n].params.per_page, 30)
      /\ (exists(reqs[i].sent.perPage)
          /\ ~\E k \in 1..100 : Denotes(reqs[i].sent.perPage, k)) =>
           Rejected(reqs[i], "perPage")

\* C6: a GET /users request that passes validation calls 'list users' with
\* since and per_page only when search is absent, and 'search users' with
\* q = "<search> in:login name email type:user", sort, order, page and
\* per_page, and no since, when search is present; the handler's branch agrees
\* with the validator's guard on search.
C6_UpstreamCallFollowsSearch ==
  \A i \in Ids :
    (reqs[i].route = USERS /\ Handled(reqs[i]) /\ reqs[i].errors = <<>>) =>
      LET q == reqs[i].query IN
      /\ Cardinality(CallsOf(i)) = 1
      /\ \A n \in CallsOf(i) :
           IF exists(reqs[i].sent.search)
           THEN /\ calls[n].route = "GET /search/users"
                /\ DOMAIN calls[n].params = {"q", "sort", "order", "page", "per_page"}
                /\ calls[n].params.q = reqs[i].sent.search.val \o <<" ", "i", "n", ":", "l", "o", "g", "i", "n", " ", "n", "a", "m", "e", " ", "e", "m", "a", "i", "l", " ", "t", "y", "p", "e", ":", "u", "s", "e", "r">>
                /\ calls[n].params.sort = reqs[i].sent.sort
                /\ calls[n].params.order = reqs[i].sent.order
                /\ calls[n].params.page = reqs[i].sent.page
                /\ calls[n].params.per_page = q.perPage
           ELSE /\ calls[n].route = "GET /users"
                /\ DOMAIN calls[n].params = {"since", "per_page"}
                /\ calls[n].params.since = reqs[i].sent.since
                /\ calls[n].params.per_page = q.perPage
C6_Witness ==
  \E i \in Ids :
    /\ reqs[i].route = USERS /\ reqs[i].pc = "awaiting"
    /\ exists(reqs[i].sent.search) /\ exists(reqs[i].sent.since)
    /\ exists(reqs[i].sent.sort) /\ exists(reqs[i].sent.page)
    /\ \E n \in CallsOf(i) : calls[n].route = "GET /search/users"

\* C7: the guarded rules of GET /users are skipped when their guard is false:
\* without search no value of sort, order or page fails, with search no value
\* of since fails.  With the guard true, a sort outside {followers,
\* repositories, joined}, an order outside {asc, desc}, a page that is not an
\* integer >= 1 and a since that is not an integer >= 0 reject the request.
C7_GuardedRules ==
  \A i \in Ids :
    (reqs[i].route = USERS /\ Validated(reqs[i])) =>
      LET s == reqs[i].sent IN
      IF ~exists(s.search)
      THEN /\ FailuresOf(reqs[i], "sort") = {}
           /\ FailuresOf(reqs[i], "order") = {}
           /\ FailuresOf(reqs[i], "page") = {}
           /\ (exists(s.since) /\ s.since.val \notin Numerals(0)) =>
                Rejected(reqs[i], "since")
      ELSE /\ FailuresOf(reqs[i], "since") = {}
           /\ (exists(s.sort) /\ s.sort.val \notin
                 {<<"f", "o", "l", "l", "o", "w", "e", "r", "s">>, <<"r", "e", "p", "o", "s", "i", "t", "o", "r", "i", "e", "s">>, <<"j", "o", "i", "n", "e", "d">>}) => Rejected(reqs[i], "sort")
           /\ (exists(s.order) /\ s.order.val \notin {<<"a", "s", "c">>, <<"d", "e", "s", "c">>}) =>
                Rejected(reqs[i], "order")
           /\ (exists(s.page) /\ s.page.val \notin Numerals(1)) =>
                Rejected(reqs[i], "page")
C7_Witness ==
  \E i \in Ids :
    /\ reqs[i].route = USERS /\ reqs[i].pc = "awaiting"
    /\ ~exists(reqs[i].sent.search)
    /\ reqs[i].sent.sort = Str(<<"s", "t", "a", "r", "s">>)
    /\ reqs[i].sent.order = Str(<<"u", "p">>)
    /\ reqs[i].sent.page = Str(<<"x">>)
    /\ reqs[i].errors = <<>>

\* Whether the Accept header of the caller admits text/html.
CallerAcceptsHtml(accept) == accept = {} \/ (accept \cap {"text/html", "text/*", "*/*"}) # {}
\* C8 as stated: every request to an unmatched path is answered with status
\* 404, a redirect to /docs when the caller accepts HTML and the JSON body
\* {error: "Resource isn't found"} otherwise.
C8_UnmatchedIs404 ==
  \A i \in Ids :
    (reqs[i].route = UNMATCHED /\ reqs[i].pc = "responded") =>
      /\ reqs[i].res.status = 404
      /\ IF CallerAcceptsHtml(reqs[i].accept)
         THEN reqs[i].res.type = "redirect" /\ reqs[i].res.body.location = "/docs"
         ELSE reqs[i].res.body = [error |-> "Resource isn't found"]
\* C8 amended: an unmatched path is answered by a redirect to /docs with
\* status 302 when the caller accepts HTML, and with status 404 and the JSON
\* body {error: "Resource isn't found"} otherwise.
C8_UnmatchedRedirectOr404 ==
  \A i \in Ids :
    (reqs[i].route = UNMATCHED /\ reqs[i].pc = "responded") =>
      /\ CallsOf(i) = {}
      /\ IF CallerAcceptsHtml(reqs[i].accept)
         THEN /\ reqs[i].res.status = 302
              /\ reqs[i].res.type = "redirect"
              /\ reqs[i].res.body = [location |-> "/docs"]
         ELSE /\ reqs[i].res.status = 404
              /\ reqs[i].res.type = "send"
              /\ reqs[i].res.body = [error |-> "Resource isn't found"]
C8_Witness ==
  \E i \in Ids :
    /\ reqs[i].route = UNMATCHED /\ reqs[i].pc = "responded"
    /\ reqs[i].accept = {"text/html"}
    /\ reqs[i].res.status = 302

\* Same shape: same nesting, arrays of the same length in the same order,
\* objects with the same number of keys in the same order, equal leaves.
RECURSIVE Isomorphic(_, _)
Isomorphic(v, w) ==
  IF v.kind \notin {"array", "object"} THEN w = v
  ELSE /\ w.kind = v.kind
       /\ Len(w.val) = Len(v.val)
       /\ \A n \in 1..Len(v.val) :
            IF v.kind = "array" THEN Isomorphic(v.val[n], w.val[n])
            ELSE Isomorphic(v.val[n].value, w.val[n].value)
\* No object of v, at any depth, has two keys with the same rewritten spelling.
RECURSIVE KeysStayDistinct(_)
KeysStayDistinct(v) ==
  IF v.kind = "array" THEN \A n \in 1..Len(v.val) : KeysStayDistinct(v.val[n])
  ELSE IF v.kind = "object"
  THEN /\ \A m, n \in 1..Len(v.val) :
            m # n => camelCaseKey(v.val[m].key) # camelCaseKey(v.val[n].key)
       /\ \A n \in 1..Len(v.val) : KeysStayDistinct(v.val[n].value)
  ELSE TRUE

\* C9 as stated: toCamelCaseParser(V) is isomorphic to V for every JSON-like
\* V (same nesting, array lengths and order, key counts, leaves), and V is
\* not mutated.
C9_Isomorphic ==
  [][returned' # NotCalled => (param' = param /\ Isomorphic(param, returned'))]_vars
\* C9 amended: the same, for every V in which no object has two keys that
\* are rewritten to the same spelling.
C9_IsomorphicWhenKeysStayDistinct ==
  [][returned' # NotCalled =>
       /\ param' = param
       /\ KeysStayDistinct(param) => Isomorphic(param, returned')]_vars
C9_Witness ==
  /\ returned # NotCalled
  /\ returned # param
  /\ KeysStayDistinct(param)
  /\ param.kind = "array"
  /\ Len(param.val) = 2
  /\ param.val[1].kind = "object"
  /\ Len(param.val[1].val) = 2

\* UserData with its keys in camel case.
userDataCamelCase ==
  JObj(<<Entry(<<"l", "o", "g", "i", "n">>, JStr("octocat")), Entry(<<"n", "o", "d", "e", "I", "d">>, JStr("MDQ6")),
         Entry(<<"s", "i", "t", "e", "A", "d", "m", "i", "n">>, JBool(FALSE)), Entry(<<"a", "v", "a", "t", "a", "r", "U", "r", "l">>, JNull)>>)
\* C10: on the success path of both routes the response has status 200 and
\* its body is toCamelCaseParser of the upstream body, never that body as it
\* came.
C10_SuccessSendsCamelCase ==
  \A i \in Ids :
    reqs[i].upstream.kind = "ok" =>
      /\ reqs[i].errors = <<>>
      /\ reqs[i].pc = "responded"
      /\ reqs[i].res.status = 200
      /\ reqs[i].res.body = toCamelCaseParser(reqs[i].upstream.data)
      /\ reqs[i].upstream.data = UserData => reqs[i].res.body = userDataCamelCase
      /\ reqs[i].upstream.data \in {UserData, ListData, SearchData} =>
           reqs[i].res.body # reqs[i].upstream.data
C10_Witness ==
  \E i, j \in Ids :
    /\ reqs[i].route = USERS /\ reqs[i].upstream.kind = "ok"
    /\ reqs[i].upstream.data = ListData /\ reqs[i].res.status = 200
    /\ reqs[j].route = USER /\ reqs[j].upstream.kind = "ok"
    /\ reqs[j].res.body = userDataCamelCase

\* The requests that passed validation and whose handler has run.
PassedValidation(i) ==
  /\ reqs[i].route \in {USERS, USER}
  /\ Handled(reqs[i])
  /\ reqs[i].errors = <<>>
\* C11: a request to GET /users or GET /users/:username that passes
\* validation causes exactly one upstream call over its whole handling,
\* whether the call succeeds or fails: no second call, and no call shared
\* with or reused by another request.
C11_ExactlyOneUpstreamCall ==
  /\ \A i \in Ids : PassedValidation(i) => Cardinality(CallsOf(i)) = 1
  /\ \A n \in 1..Len(calls) : calls[n].req \in Ids /\ PassedValidation(calls[n].req)
  /\ Len(calls) = Cardinality({i \in Ids : PassedValidation(i)})
C11_Witness ==
  \E i, j \in Ids :
    /\ i # j
    /\ reqs[i].route = USERS /\ reqs[j].route = USERS
    /\ reqs[i].sent = reqs[j].sent
    /\ reqs[i].pc = "responded" /\ reqs[i].upstream.kind = "ok"
    /\ reqs[j].pc = "rejected" /\ reqs[j].upstream.kind = "error"
    /\ Len(calls) = 2
    /\ calls[1].params = calls[2].params

\* Whether the parameter name of the query s, as sent, violates its rule
\* (its guard holding).  An empty perPage takes the default and violates
\* nothing.
Violates(s, name) ==
  CASE name = "perPage" ->
         exists(s.perPage) /\ s.perPage.val # <<>>
         /\ ~\E k \in 1..100 : Denotes(s.perPage, k)
    [] name = "since" ->
         ~exists(s.search) /\ exists(s.since) /\ s.since.val \notin Numerals(0)
    [] name = "search" -> exists(s.search) /\ Len(s.search.val) < 3
    [] name = "sort" ->
         exists(s.search) /\ exists(s.sort)
         /\ s.sort.val \notin {<<"f", "o", "l", "l", "o", "w", "e", "r", "s">>, <<"r", "e", "p", "o", "s", "i", "t", "o", "r", "i", "e", "s">>, <<"j", "o", "i", "n", "e", "d">>}
    [] name = "order" ->
         exists(s.search) /\ exists(s.order) /\ s.order.val \notin {<<"a", "s", "c">>, <<"d", "e", "s", "c">>}
    [] name = "page" ->
         exists(s.search) /\ exists(s.page) /\ s.page.val \notin Numerals(1)
RuleMessage(name) ==
  CASE name = "perPage" -> "perPage must be an integer between 1 and 100"
    [] name = "since" -> "since must be an integer greater than 0"
    [] name = "search" -> "search must be a string with at least 3 characters"
    [] name = "sort" ->
         "sort must be one of the following values: followers, repositories, joined"
    [] name = "order" -> "order must be one of the following values: asc, desc"
    [] name = "page" -> "page must be an integer greater than 0"
QueryParameters == {"perPage", "since", "search", "sort", "order", "page"}
\* C12: validation of GET /users does not short-circuit: the errors list of
\* the 400 response has a failure entry for every parameter that violates
\* its rule, each with the supplied value, the message, the parameter name
\* and its location.
C12_AllFailuresReported ==
  \A i \in Ids :
    (reqs[i].route = USERS /\ Validated(reqs[i])) =>
      /\ \A name \in QueryParameters :
           IF Violates(reqs[i].sent, name)
           THEN /\ Cardinality(FailuresOf(reqs[i], name)) = 1
                /\ \A n \in FailuresOf(reqs[i], name) :
                     reqs[i].errors[n] =
                       [value |-> reqs[i].sent[name], msg |-> RuleMessage(name),
                        param |-> name, location |-> "query"]
           ELSE FailuresOf(reqs[i], name) = {}
      /\ (reqs[i].pc = "responded" /\ \E name \in QueryParameters :
                                        Violates(reqs[i].sent, name)) =>
           /\ reqs[i].res.status = 400
           /\ reqs[i].res.body.errors = reqs[i].errors
C12_Witness ==
  \E i \in Ids :
    /\ reqs[i].route = USERS /\ reqs[i].pc = "responded"
    /\ reqs[i].sent.perPage = Str(<<"1", "0", "1">>)
    /\ reqs[i].sent.search = Str(<<"a", "b">>)
    /\ reqs[i].res.status = 400
    /\ Len(reqs[i].res.body.errors) >= 2
    /\ reqs[i].res.body.errors[1].param = "perPage"
    /\ reqs[i].res.body.errors[2].param = "search"

\* The rewriting of a key, position by position: a delimiter directly
\* followed by a letter is dropped, the letter after it is uppercased, and
\* every other character stays.
DelimiterBeforeLetter(key, n) ==
  /\ n >= 1
  /\ n < Len(key)
  /\ key[n] \in {"-", "_"}
  /\ IsLetter(key[n + 1])
RECURSIVE RewrittenUpTo(_, _)
RewrittenUpTo(key, n) ==
  IF n = 0 THEN <<>>
  ELSE RewrittenUpTo(key, n - 1) \o
       (IF DelimiterBeforeLetter(key, n) THEN <<>>
        ELSE IF DelimiterBeforeLetter(key, n - 1) THEN <<ToUpperCase(key[n])>>
        ELSE <<key[n]>>)
Rewritten(key) == RewrittenUpTo(key, Len(key))
\* w carries the rewritten keys of v at every depth: the keys of each object
\* are the rewritten keys of its source, and under each key stands the
\* rewriting of the last source value of that key.
RECURSIVE KeysRewritten(_, _)
KeysRewritten(v, w) ==
  IF v.kind = "array"
  THEN /\ w.kind = "array"
       /\ Len(w.val) = Len(v.val)
       /\ \A n \in 1..Len(v.val) : KeysRewritten(v.val[n], w.val[n])
  ELSE IF v.kind = "object"
  THEN /\ w.kind = "object"
       /\ {w.val[n].key : n \in 1..Len(w.val)} = {Rewritten(v.val[m].key) : m \in 1..Len(v.val)}
       /\ \A m, n \in 1..Len(w.val) : m # n => w.val[m].key # w.val[n].key
       /\ \A n \in 1..Len(w.val) :
            LET from == {m \in 1..Len(v.val) : Rewritten(v.val[m].key) = w.val[n].key}
                last == CHOOSE m \in from : \A o \in from : o <= m
            IN KeysRewritten(v.val[last].value, w.val[n].value)
  ELSE w = v
\* C13: toCamelCaseParser rewrites each key by replacing every hyphen or
\* underscore directly followed by a letter (either case) with that letter
\* uppercased; a key without delimiter is unchanged, and a delimiter followed
\* by a delimiter, a non-letter or the end of the key stays (site_admin ->
\* siteAdmin, avatar-url -> avatarUrl, a__b -> a_B); at every depth, objects
\* inside arrays included.
C13_KeysRewritten ==
  returned # NotCalled =>
    /\ KeysRewritten(param, returned)
    /\ toCamelCaseParser(JArr(<<JObj(<<Entry(<<"s", "i", "t", "e", "_", "a", "d", "m", "i", "n">>, JNull), Entry(<<"a", "v", "a", "t", "a", "r", "-", "u", "r", "l">>, JNull),
                                      Entry(<<"a", "_", "_", "b">>, JNull), Entry(<<"l", "o", "g", "i", "n">>, JNull),
                                      Entry(<<"c", "_", "1", "_">>, JNull), Entry(<<"a", "-", "B">>, JNull)>>)>>))
         = JArr(<<JObj(<<Entry(<<"s", "i", "t", "e", "A", "d", "m", "i", "n">>, JNull), Entry(<<"a", "v", "a", "t", "a", "r", "U", "r", "l">>, JNull),
                         Entry(<<"a", "_", "B">>, JNull), Entry(<<"l", "o", "g", "i", "n">>, JNull),
                         Entry(<<"c", "_", "1", "_">>, JNull), Entry(<<"a", "B">>, JNull)>>)>>)
C13_Witness ==
  /\ returned # NotCalled
  /\ param = JArr(<<JObj(<<Entry(<<"a", "-", "B">>, JStr("x")), Entry(<<"a", "_", "_", "b">>, JNull)>>), JNum(1)>>)
  /\ returned = JArr(<<JObj(<<Entry(<<"a", "B">>, JStr("x")), Entry(<<"a", "_", "B">>, JNull)>>), JNum(1)>>)

(***************************************************************************)
(* Liveness.  The event loop runs every callback that is ready, and the    *)
(* upstream call of a request eventually returns or fails: each request    *)
(* that can take a step eventually takes one.                              *)
(***************************************************************************)
Fairness == \A i \in 1..MaxRequests : WF_vars(NextStep(i))
SpecLive == Init /\ [][Next]_vars /\ Fairness

\* C14: every request to GET /users or GET /users/:username eventually
\* receives its response, given that the upstream call eventually returns a
\* body or fails; a handler resumed with a failure still answers, and no
\* request stays pending forever.
C14_EveryRequestAnswered ==
  \A i \in 1..MaxRequests :
    (reqs[i].pc = "received" /\ reqs[i].route \in {USERS, USER}) ~>
      (reqs[i].pc = "responded" /\ reqs[i].res # NoResponse)
====
